---- MODULE Spec2Model ----
(***************************************************************************)
(* Model of app.py, the HSMA Career Center change detector.                *)
(*                                                                         *)
(* A run of main() loads the bot token, opens bot.db, fetches the tables   *)
(* of the page, groups every table by its first column and hands every     *)
(* grouped row to check_for_change, which inserts an unseen                *)
(* (Thema, table_num) key, updates a changed record, and calls             *)
(* generate_message for both.                                              *)
(*                                                                         *)
(* Text is modelled as a sequence of one-character strings, so that the    *)
(* diff, its rendering, ', '.join and str.strip are computed and not       *)
(* assumed.  A column name is modelled by the set of the tokens that       *)
(* parse_row searches for and that the name contains.                      *)
(***************************************************************************)
EXTENDS Integers, Sequences, FiniteSets, TLC

(***************************************************************************)
(* Text                                                                    *)
(***************************************************************************)

\* float('nan'), the value pandas gives an empty cell
NaN == <<"NaN">>

\* U+0336 COMBINING LONG STROKE OVERLAY, one character
Stroke == "U+0336"

\* a Python int held in an object Series
PyInt(n) == <<"int", n>>

Digit == <<"0", "1", "2", "3", "4", "5", "6", "7", "8", "9">>

RECURSIVE str(_)
\* str(n) of a non-negative int
str(n) == IF n < 10 THEN <<Digit[n + 1]>> ELSE str(n \div 10) \o <<Digit[(n % 10) + 1]>>

\* code points, for the order in which groupby sorts its keys
Ord(c) ==
    CASE c = " " -> 32
      [] c = "," -> 44
      [] c = "0" -> 48
      [] c = "1" -> 49
      [] c = "2" -> 50
      [] c = "5" -> 53
      [] c = "7" -> 55
      [] c = "A" -> 65
      [] c = "B" -> 66
      [] c = "X" -> 88
      [] c = "Y" -> 89
      [] c = "a" -> 97
      [] c = "j" -> 106
      [] OTHER -> 822

RECURSIVE StrLess(_, _)
\* a < b for Python str
StrLess(a, b) ==
    IF b = <<>> THEN FALSE
    ELSE IF a = <<>> THEN TRUE
    ELSE IF Head(a) # Head(b) THEN Ord(Head(a)) < Ord(Head(b))
    ELSE StrLess(Tail(a), Tail(b))

RECURSIVE lstrip(_)
lstrip(s) == IF s # <<>> /\ Head(s) = " " THEN lstrip(Tail(s)) ELSE s

RECURSIVE rstrip(_)
rstrip(s) ==
    IF s # <<>> /\ s[Len(s)] = " " THEN rstrip(SubSeq(s, 1, Len(s) - 1)) ELSE s

\* strip left out: the text as it is
strip_none(s) == s

\* str.strip()
strip(s) == rstrip(lstrip(s))

RECURSIVE join(_, _)
\* sep.join(parts), parts a sequence of str (or the characters of one str)
join(sep, parts) ==
    IF parts = <<>> THEN <<>>
    ELSE IF Len(parts) = 1 THEN Head(parts)
    ELSE Head(parts) \o sep \o join(sep, Tail(parts))

\* the characters of a str, each as a str of length one
chars(s) == [i \in 1..Len(s) |-> <<s[i]>>]

(***************************************************************************)
(* calc_str_diff: diff_match_patch.diff_main + diff_cleanupSemantic.       *)
(* A diff is a sequence of <<op, text>>, op -1 delete, 0 equal, 1 insert.  *)
(* diff_main returns the equality alone for equal texts, otherwise it      *)
(* strips the common prefix and suffix and diffs the middles.  The model   *)
(* covers the middles that share no character (one of them may be empty):  *)
(* there diff_compute yields delete(middle1), insert(middle2), and         *)
(* diff_cleanupSemantic finds no equality between two edits and no         *)
(* overlap, so it changes nothing.  InDiffDomain states that domain; the   *)
(* texts of the model are chosen inside it (DiffModelled).                 *)
(***************************************************************************)

RECURSIVE diff_commonPrefix(_, _)
diff_commonPrefix(a, b) ==
    IF a = <<>> \/ b = <<>> \/ Head(a) # Head(b) THEN 0
    ELSE 1 + diff_commonPrefix(Tail(a), Tail(b))

RECURSIVE diff_commonSuffix(_, _)
diff_commonSuffix(a, b) ==
    IF a = <<>> \/ b = <<>> \/ a[Len(a)] # b[Len(b)] THEN 0
    ELSE 1 + diff_commonSuffix(SubSeq(a, 1, Len(a) - 1), SubSeq(b, 1, Len(b) - 1))

Span(op, text) == IF text = <<>> THEN <<>> ELSE << <<op, text>> >>

Middle1(a, b) ==
    LET p == diff_commonPrefix(a, b)
        a1 == SubSeq(a, p + 1, Len(a))
        b1 == SubSeq(b, p + 1, Len(b))
        s == diff_commonSuffix(a1, b1)
    IN SubSeq(a1, 1, Len(a1) - s)

Middle2(a, b) == Middle1(b, a)

\* the texts whose diff the model computes as the library does: the middles
\* share no character, and a single edit between two equalities does not end
\* with the last character of the equality before it (there diff_cleanupMerge
\* and diff_cleanupSemanticLossless would shift the edit)
InDiffDomain(a, b) ==
    LET m1 == Middle1(a, b)
        m2 == Middle2(a, b)
        p == diff_commonPrefix(a, b)
        edit == IF m1 = <<>> THEN m2 ELSE m1
    IN /\ \A i \in 1..Len(m1) : \A j \in 1..Len(m2) : m1[i] # m2[j]
       /\ (a # b /\ (m1 = <<>> \/ m2 = <<>>) /\ p > 0 /\ p + Len(m1) < Len(a))
            => edit[Len(edit)] # a[p]

calc_str_diff(original_str, new_str) ==
    IF original_str = new_str THEN Span(0, original_str)
    ELSE LET p == diff_commonPrefix(original_str, new_str)
             m1 == Middle1(original_str, new_str)
             m2 == Middle2(original_str, new_str)
         IN Span(0, SubSeq(original_str, 1, p))
            \o Span(-1, m1) \o Span(1, m2)
            \o Span(0, SubSeq(original_str, p + Len(m1) + 1, Len(original_str)))

\* sum([elem[0] != 0 for elem in diff])
num_changed(diff) == Cardinality({i \in 1..Len(diff) : diff[i][1] # 0})

\* ' \u0336'.join(text) + '\u0336': the separator is a space and the stroke
strikethrough(text) == join(<<" ", Stroke>>, chars(text)) \o <<Stroke>>

RECURSIVE generate_pretty_diff(_)
generate_pretty_diff(diff) ==
    IF diff = <<>> THEN <<>>
    ELSE LET elem == Head(diff)
             piece == CASE elem[1] = 0 -> elem[2]
                        [] elem[1] = -1 -> strikethrough(elem[2])
                        [] elem[1] = 1 -> <<"*", "*">> \o elem[2] \o <<"*", "*">>
         IN piece \o generate_pretty_diff(Tail(diff))

(***************************************************************************)
(* Rows and tables                                                         *)
(***************************************************************************)

\* the substrings parse_row looks for in a column name
Tokens == {"Thema", "(UE)", "Anerkennung", "Termin", "Uhrzeit", "Raum", "Anmeldung", "table_num"}

Min(S) == CHOOSE m \in S : \A o \in S : m <= o

\* row.filter(like=token).get(0, ''): the value of the first column whose
\* name contains the token, '' when there is none
filter_get(row, token) ==
    LET like == {i \in 1..Len(row.cols) : token \in row.cols[i]}
    IN IF like = {} THEN <<>> ELSE row.vals[Min(like)]

parse_row(row) ==
    << filter_get(row, "Thema"), filter_get(row, "(UE)"), filter_get(row, "Anerkennung"),
       filter_get(row, "Termin"), filter_get(row, "Uhrzeit"), filter_get(row, "Raum"),
       filter_get(row, "Anmeldung"), filter_get(row, "table_num") >>

\* int(x) of a Python int
int(x) == x[2]

\* df_table.where(pd.notnull(df_table), ''), for one row
where_notnull(cells) == [i \in 1..Len(cells) |-> IF cells[i] = NaN THEN <<>> ELSE cells[i]]

RECURSIVE sorted(_)
\* the group keys in ascending order (groupby sorts its keys)
sorted(S) ==
    IF S = {} THEN <<>>
    ELSE LET m == CHOOSE k \in S : \A o \in S \ {k} : StrLess(k, o)
         IN <<m>> \o sorted(S \ {m})

\* groupby(first column, as_index=False)[other columns].agg(', '.join),
\* then the column table_num = idx
table_preprocessing(df_table, idx) ==
    LET filled == [r \in 1..Len(df_table.rows) |-> where_notnull(df_table.rows[r])]
        keys == sorted({filled[r][1] : r \in 1..Len(filled)})
        ncols == Len(df_table.cols)
        group(k) == LET InGroup(cells) == cells[1] = k IN SelectSeq(filled, InGroup)
        column(g, c) == [r \in 1..Len(g) |-> g[r][c]]
        agg(k) == [c \in 1..ncols |->
                      IF c = 1 THEN k ELSE join(<<",", " ">>, column(group(k), c))]
    IN [g \in 1..Len(keys) |->
           [cols |-> Append(df_table.cols, {"table_num"}),
            vals |-> Append(agg(keys[g]), PyInt(idx))]]

(***************************************************************************)
(* The table CareerCenter of bot.db: a set of 8-tuples                     *)
(* <<Thema, Zeitlicher_Umfang, Anerkennung, Termin, Uhrzeit, Raum,         *)
(*   Anmeldung, table_num>>, table_num an integer.                         *)
(***************************************************************************)

\* cursor.fetchone() when the SELECT matches nothing
None == <<>>

\* the SELECT without 'AND table_num=?'
select_by_thema(db, thema, table_num) ==
    LET found == {r \in db : r[1] = thema}
    IN IF found = {} THEN None ELSE CHOOSE r \in found : TRUE

\* SELECT * FROM CareerCenter WHERE Thema=? AND table_num=?, then fetchone()
select_fetchone(db, thema, table_num) ==
    LET found == {r \in db : r[1] = thema /\ r[8] = table_num}
    IN IF found = {} THEN None ELSE CHOOSE r \in found : TRUE

\* does INSERT raise sqlite3.IntegrityError (PRIMARY KEY (Thema, table_num))
IntegrityError(db, values) ==
    \E r \in db : r[1] = values[1] /\ r[8] = values[8]

\* the INSERT never executed
insert_lost(db, values) == db

\* INSERT INTO CareerCenter VALUES (?,?,?,?,?,?,?,?)
insert(db, values) == db \cup {values}

\* the UPDATE without 'AND table_num = ?'
update_by_thema(db, ue, bv, termine, uhrzeit, raum, anmeldung, thema, table_num) ==
    {IF r[1] = thema
        THEN <<r[1], ue, bv, termine, uhrzeit, raum, anmeldung, r[8]>>
        ELSE r : r \in db}

\* UPDATE CareerCenter SET the six fields WHERE Thema = ? AND table_num = ?
update(db, ue, bv, termine, uhrzeit, raum, anmeldung, thema, table_num) ==
    {IF r[1] = thema /\ r[8] = table_num
        THEN <<r[1], ue, bv, termine, uhrzeit, raum, anmeldung, r[8]>>
        ELSE r : r \in db}

(***************************************************************************)
(* generate_message and check_for_change                                   *)
(***************************************************************************)

\* 'Fakultaet' stands for the title with a-umlaut
Titles == <<"Thema", "UE", "Fakultaet", "Termin(e)", "Uhrzeit", "Raum", "Anmeldung">>

\* the message text, line by line: title + ': ' + info + "\n" for the seven
\* titles zipped with the first seven entries of the tuple
message_of(result_html) == [i \in 1..7 |-> <<Titles[i], result_html[i]>>]

\* str(entry) of the entry at position i of a row tuple
str_entry(i, entry) == IF i = 8 THEN str(entry) ELSE entry

\* the diff of one pair of zip(result_db, result_html)
entry_diff(result_db, result_html, i) ==
    calc_str_diff(str_entry(i, result_db[i]),
                  str_entry(i, IF i = 8 THEN int(result_html[i]) ELSE result_html[i]))

\* the tuple 'result' built by the loop of check_for_change
diff_result(result_db, result_html) ==
    [i \in 1..8 |->
        IF num_changed(entry_diff(result_db, result_html, i)) > 0
            THEN generate_pretty_diff(entry_diff(result_db, result_html, i))
            ELSE result_db[i]]

\* change_detected assigned in every iteration: the last entry decides
change_detected_last(result_db, result_html) ==
    num_changed(entry_diff(result_db, result_html, 8)) > 0

change_detected(result_db, result_html) ==
    \E i \in 1..8 : num_changed(entry_diff(result_db, result_html, i)) > 0

\* the values bound by the INSERT: table_num goes into the INTEGER column
bound_values(result_html) == [result_html EXCEPT ![8] = int(result_html[8])]

\* What one call of check_for_change does, up to and including the
\* composition of the message in generate_message:
\*   sql      the writing statements executed, in order
\*   db       the table as the connection sees it afterwards
\*   commit   whether conn.commit() ran
\*   raised   the exception that left the function, "" if none
\*   messages the messages generate_message is called to print, in order
check_for_change(row, db) ==
    LET result_html == parse_row(row)
        result_db == select_fetchone(db, result_html[1], int(result_html[8]))
        return == [sql |-> <<>>, db |-> db, commit |-> FALSE, raised |-> "",
                   messages |-> <<>>]
    IN IF \A i \in 1..Len(row.vals) : row.vals[i] = NaN THEN return
       ELSE IF strip(result_html[1]) = <<>> THEN return
       ELSE IF result_db = None THEN
            IF IntegrityError(db, bound_values(result_html))
                THEN [sql |-> <<"INSERT">>, db |-> db, commit |-> FALSE,
                      raised |-> "IntegrityError", messages |-> <<>>]
                ELSE [sql |-> <<"INSERT">>,
                      db |-> insert(db, bound_values(result_html)),
                      commit |-> TRUE, raised |-> "",
                      messages |-> <<message_of(result_html)>>]
       ELSE IF change_detected(result_db, result_html) THEN
            [sql |-> <<"UPDATE">>,
             db |-> update(db, result_html[2], result_html[3], result_html[4],
                           result_html[5], result_html[6], result_html[7],
                           result_html[1], int(result_html[8])),
             commit |-> TRUE, raised |-> "",
             messages |-> <<message_of(diff_result(result_db, result_html))>>]
       ELSE return

(***************************************************************************)
(* The pages the model fetches.  A table is [cols, rows]: cols the column  *)
(* names (token sets), rows the cells of each row, a text or NaN.          *)
(***************************************************************************)

\* 'Thema', 'Zeitlicher Umfang (UE)', 'Anerkennung ...', 'Termin(e)',
\* 'Uhrzeit', 'Raum', 'Anmeldung'
ThemaFirst == <<{"Thema"}, {"(UE)"}, {"Anerkennung"}, {"Termin"}, {"Uhrzeit"}, {"Raum"}, {"Anmeldung"}>>

\* a table with a leading column 'Nr.' and without some of the columns
NrFirst == <<{}, {"Thema"}, {"(UE)"}, {"Raum"}>>

\* the six fields of three course descriptions, by token
Course1 == [ue |-> <<"1", "0">>, bv |-> <<"B">>, termin |-> NaN, uhrzeit |-> NaN,
            raum |-> <<"A">>, anmeldung |-> <<"j", "a">>]
Course2 == [ue |-> <<"1", "2">>, bv |-> <<"B">>, termin |-> NaN, uhrzeit |-> <<"5">>,
            raum |-> NaN, anmeldung |-> <<"j", "a">>]
Course3 == [ue |-> <<"7">>, bv |-> NaN, termin |-> NaN, uhrzeit |-> NaN,
            raum |-> <<"A">>, anmeldung |-> NaN]

\* the cells of a row under the columns cols
Cells(cols, nr, thema, course) ==
    [c \in 1..Len(cols) |->
        CASE "Thema" \in cols[c] -> thema
          [] "(UE)" \in cols[c] -> course.ue
          [] "Anerkennung" \in cols[c] -> course.bv
          [] "Termin" \in cols[c] -> course.termin
          [] "Uhrzeit" \in cols[c] -> course.uhrzeit
          [] "Raum" \in cols[c] -> course.raum
          [] "Anmeldung" \in cols[c] -> course.anmeldung
          [] OTHER -> nr]

\* a separator row: every cell empty
EmptyCells(cols) == [c \in 1..Len(cols) |-> NaN]

\* the rows a table may show first, and the rows it may show after them
FirstRows(cols) ==
    {Cells(cols, <<"1">>, <<"X">>, Course1), Cells(cols, <<"1">>, <<"X">>, Course2),
     Cells(cols, <<"1">>, <<"Y">>, Course1), Cells(cols, <<"1">>, <<" ">>, Course1),
     EmptyCells(cols)}

LaterRows(cols) ==
    {Cells(cols, <<"1">>, <<"X">>, Course3), Cells(cols, <<"2">>, <<"X">>, Course3),
     Cells(cols, <<"2">>, <<"Y">>, Course3)}

MaxRows == 2

RECURSIVE RowsOf(_, _)
\* the row sequences of length n under the columns cols
RowsOf(cols, n) ==
    IF n = 0 THEN {<<>>}
    ELSE IF n = 1 THEN {<<r>> : r \in FirstRows(cols)}
    ELSE {Append(rs, r) : rs \in RowsOf(cols, n - 1), r \in LaterRows(cols)}

TablesOf(cols) ==
    {[cols |-> cols, rows |-> rows] : rows \in UNION {RowsOf(cols, n) : n \in 0..MaxRows}}

Tables == TablesOf(ThemaFirst) \cup TablesOf(NrFirst)

SingleRowTables == {[cols |-> ThemaFirst, rows |-> <<r>>] : r \in FirstRows(ThemaFirst)}

\* the same Thema in the second table of a page
SecondTables ==
    {[cols |-> ThemaFirst, rows |-> <<Cells(ThemaFirst, <<"1">>, <<"X">>, c)>>] :
        c \in {Course1, Course2}}

\* what pd.read_html(URL) may return: one table, or two tables of one row
Pages == {<<t>> : t \in Tables} \cup {<<t, u>> : t \in SingleRowTables, u \in SecondTables}

\* a row of which every value is null
NullRow == [cols |-> Append(ThemaFirst, {"table_num"}), vals |-> [c \in 1..8 |-> NaN]]

RowsOfFrame(frame) == {frame[i] : i \in 1..Len(frame)}

\* the tables whose grouped rows check_for_change is called with when it is
\* called on its own: one row, two rows of which the second may share the
\* Thema of the first, and a row of a table that lacks columns
CallTables ==
    SingleRowTables
    \cup {[cols |-> ThemaFirst, rows |-> <<r, Cells(ThemaFirst, <<"1">>, <<"X">>, Course3)>>] :
             r \in FirstRows(ThemaFirst)}
    \cup {[cols |-> NrFirst, rows |-> <<Cells(NrFirst, <<"1">>, <<"X">>, Course2)>>]}

\* the rows of those tables, and the null row
CallRows ==
    UNION {RowsOfFrame(table_preprocessing(t, 0)) : t \in CallTables}
    \cup UNION {RowsOfFrame(table_preprocessing(t, 1)) : t \in SecondTables}
    \cup {NullRow}

(***************************************************************************)
(* State                                                                   *)
(***************************************************************************)

VARIABLES
    store,      \* CareerCenter as the open connection sees it
    durable,    \* CareerCenter as committed to bot.db
    pending,    \* messages composed by generate_message, not yet printed
    outbox,     \* messages printed by this process
    pc,         \* "exit", "table", "row", "print"; "call", "call_print"
    err,        \* the exception that ended the last run or call, "" if none
    bot,        \* "none", "loaded", "missing"
    tables,     \* the tables fetched by this run
    idx,        \* how many tables the loop of main has taken
    rows,       \* the rows of the current grouped table still to apply
    done,       \* the last run reached conn.close()
    runs,       \* runs of main started
    calls,      \* calls of check_for_change made on its own
    last,       \* the last call of check_for_change: its row, the table before
                \* it, the statements it executed and the messages it emitted
    seen,       \* the keys check_for_change was called with in this run
    twice,      \* a key was seen twice in this run
    rerun,      \* this run follows a complete run over the same tables
    writes      \* commits made in this run

vars == <<store, durable, pending, outbox, pc, err, bot, tables, idx, rows, done,
          runs, calls, last, seen, twice, rerun, writes>>

MaxRuns == 2

MaxCalls == 3

NoCall == [row |-> NullRow, before |-> {}, sql |-> <<>>, messages |-> <<>>, raised |-> "", made |-> FALSE]

\* bot.db does not exist yet and no process runs
Start(at) ==
    /\ store = {}
    /\ durable = {}
    /\ pending = <<>>
    /\ outbox = <<>>
    /\ pc = at
    /\ err = ""
    /\ bot = "none"
    /\ tables = <<>>
    /\ idx = 0
    /\ rows = <<>>
    /\ done = FALSE
    /\ runs = 0
    /\ calls = 0
    /\ last = NoCall
    /\ seen = {}
    /\ twice = FALSE
    /\ rerun = FALSE
    /\ writes = 0

Init == Start("exit")

\* a new process: nothing printed, no call made, the connection not yet open
NewProcess ==
    /\ runs' = runs + 1
    /\ store' = durable
    /\ pending' = <<>>
    /\ outbox' = <<>>
    /\ last' = NoCall
    /\ seen' = {}
    /\ twice' = FALSE
    /\ writes' = 0
    /\ done' = FALSE
    /\ idx' = 0
    /\ rows' = <<>>
    /\ UNCHANGED <<durable, calls>>

\* main: setup_bot() raises (config.json missing, unreadable or without
\* 'token'); nothing catches it, the process ends
setup_bot_raises ==
    /\ pc = "exit"
    /\ runs < MaxRuns
    /\ NewProcess
    /\ bot' = "missing"
    /\ err' = "setup_bot"
    /\ pc' = "exit"
    /\ tables' = <<>>
    /\ rerun' = FALSE

\* main: setup_bot() and setup_sqlite() succeed, pd.read_html(URL) raises
read_html_raises ==
    /\ pc = "exit"
    /\ runs < MaxRuns
    /\ NewProcess
    /\ bot' = "loaded"
    /\ err' = "read_html"
    /\ pc' = "exit"
    /\ tables' = <<>>
    /\ rerun' = FALSE

\* main: setup_bot(), setup_sqlite() (CREATE TABLE IF NOT EXISTS keeps the
\* rows of bot.db), tables = pd.read_html(URL)
main ==
    /\ pc = "exit"
    /\ runs < MaxRuns
    /\ NewProcess
    /\ \E page \in Pages :
        /\ tables' = page
        /\ rerun' = (done /\ page = tables)
    /\ bot' = "loaded"
    /\ err' = ""
    /\ pc' = "table"

\* main: the next iteration of 'for idx, df_table in enumerate(tables)'
next_table ==
    /\ pc = "table"
    /\ idx < Len(tables)
    /\ rows' = table_preprocessing(tables[idx + 1], idx)
    /\ idx' = idx + 1
    /\ pc' = IF rows' = <<>> THEN "table" ELSE "row"
    /\ UNCHANGED <<store, durable, pending, outbox, err, bot, tables, done, runs,
                   calls, last, seen, twice, rerun, writes>>

\* main: the loop is over, conn.close(), the process ends
conn_close ==
    /\ pc = "table"
    /\ idx = Len(tables)
    /\ done' = TRUE
    /\ pc' = "exit"
    /\ UNCHANGED <<store, durable, pending, outbox, err, bot, tables, idx, rows,
                   runs, calls, last, seen, twice, rerun, writes>>

\* the key parse_row gives a row, None for the null row
KeyOf(row) ==
    IF \A i \in 1..Len(row.vals) : row.vals[i] = NaN THEN None
    ELSE <<parse_row(row)[1], int(parse_row(row)[8])>>

\* check_for_change(row, conn, cursor) up to the print of generate_message
Called(row) ==
    \E e \in {check_for_change(row, store)} :
       /\ store' = e.db
       /\ durable' = IF e.commit THEN e.db ELSE durable
       /\ pending' = e.messages
       /\ err' = e.raised
       /\ last' = [row |-> row, before |-> store, sql |-> e.sql,
                   messages |-> e.messages, raised |-> e.raised, made |-> TRUE]
       /\ writes' = writes + (IF e.commit THEN 1 ELSE 0)
       /\ seen' = IF KeyOf(row) = None THEN seen ELSE seen \cup {KeyOf(row)}
       /\ twice' = (twice \/ (KeyOf(row) # None /\ KeyOf(row) \in seen))

\* df_table.apply(lambda row: check_for_change(row, conn, cursor), axis=1),
\* one row of it
apply_row ==
    /\ pc = "row"
    /\ Called(Head(rows))
    /\ rows' = Tail(rows)
    /\ pc' = IF err' # "" THEN "exit"
             ELSE IF pending' # <<>> THEN "print"
             ELSE IF rows' = <<>> THEN "table" ELSE "row"
    /\ UNCHANGED <<outbox, bot, tables, idx, done, runs, calls, rerun>>

\* generate_message: print(message) succeeds
print_ok ==
    /\ pc = "print"
    /\ outbox' = Append(outbox, Head(pending))
    /\ pending' = Tail(pending)
    /\ pc' = IF pending' # <<>> THEN "print"
             ELSE IF rows = <<>> THEN "table" ELSE "row"
    /\ UNCHANGED <<store, durable, err, bot, tables, idx, rows, done, runs, calls,
                   last, seen, twice, rerun, writes>>

\* generate_message: the delivery raises (stdout closed or unable to encode
\* the text; the bot.send_message the print stands for: a network error).
\* Nothing catches it: it leaves check_for_change, apply and main
print_raises ==
    /\ pc = "print"
    /\ pending' = <<>>
    /\ err' = "print"
    /\ pc' = "exit"
    /\ UNCHANGED <<store, durable, outbox, bot, tables, idx, rows, done, runs, calls,
                   last, seen, twice, rerun, writes>>

Next ==
    \/ setup_bot_raises
    \/ read_html_raises
    \/ main
    \/ next_table
    \/ conn_close
    \/ apply_row
    \/ print_ok
    \/ print_raises

Spec == Init /\ [][Next]_vars

(***************************************************************************)
(* check_for_change called on its own, on one connection                   *)
(***************************************************************************)

InitRow == Start("call")

call(row) ==
    /\ pc = "call"
    /\ calls < MaxCalls
    /\ calls' = calls + 1
    /\ Called(row)
    /\ pc' = IF pending' # <<>> THEN "call_print" ELSE "call"
    /\ UNCHANGED <<outbox, bot, tables, idx, rows, done, runs, rerun>>

call_print_ok ==
    /\ pc = "call_print"
    /\ outbox' = Append(outbox, Head(pending))
    /\ pending' = Tail(pending)
    /\ pc' = IF pending' # <<>> THEN "call_print" ELSE "call"
    /\ UNCHANGED <<store, durable, err, bot, tables, idx, rows, done, runs, calls,
                   last, seen, twice, rerun, writes>>

\* the exception reaches the caller, who may call again
call_print_raises ==
    /\ pc = "call_print"
    /\ pending' = <<>>
    /\ err' = "print"
    /\ pc' = "call"
    /\ UNCHANGED <<store, durable, outbox, bot, tables, idx, rows, done, runs, calls,
                   last, seen, twice, rerun, writes>>

NextRow ==
    \/ \E row \in CallRows : call(row)
    \/ call_print_ok
    \/ call_print_raises

SpecRow == InitRow /\ [][NextRow]_vars

\* every diff the model computes is one it computes as the library does
DiffModelled ==
    (last.made /\ KeyOf(last.row) # None) =>
        \A r \in last.before :
            (r[1] = KeyOf(last.row)[1] /\ r[8] = KeyOf(last.row)[2]) =>
                \A i \in 2..7 : InDiffDomain(r[i], parse_row(last.row)[i])

(***************************************************************************)
(* Properties.  They read the call from 'last' and recompute what the      *)
(* claim expects from the row and the table before the call.               *)
(***************************************************************************)

IsNull(row) == \A i \in 1..Len(row.vals) : row.vals[i] = NaN

\* empty or whitespace-only
IsBlank(text) == \A i \in 1..Len(text) : text[i] = " "

\* the normalized row as a record of the table
RecordOf(row) == [i \in 1..8 |-> IF i = 8 THEN parse_row(row)[8][2] ELSE parse_row(row)[i]]

WithKey(db, rec) == {r \in db : r[1] = rec[1] /\ r[8] = rec[8]}

Keys(db) == {<<r[1], r[8]>> : r \in db}

KeysUnique(db) == \A r \in db : WithKey(db, r) = {r}

\* the last call was made with a row that has a non-blank Topic
LastValid == last.made /\ ~IsNull(last.row) /\ ~IsBlank(parse_row(last.row)[1])

LastNew == RecordOf(last.row)

LastFound == LastValid /\ WithKey(last.before, LastNew) # {}

LastOld == CHOOSE r \in WithKey(last.before, LastNew) : TRUE

LastDiffers == \E i \in 2..7 : LastOld[i] # LastNew[i]

\* C1: a row with a non-blank Topic whose key is not in the store is inserted
\* as the full normalized record and committed, one message with the seven
\* display fields of the record is emitted, every other record is unchanged.
C1_NewKeyInserted ==
    (LastValid /\ ~LastFound) =>
        /\ last.sql = <<"INSERT">>
        /\ store = last.before \cup {LastNew}
        /\ WithKey(store, LastNew) = {LastNew}
        /\ durable = store
        /\ last.messages = << [i \in 1..7 |-> <<Titles[i], parse_row(last.row)[i]>>] >>

C1_Witness ==
    /\ LastValid /\ ~LastFound
    /\ last.before # {}
    /\ pc = "call_print"
    /\ \E i \in 2..7 : LastNew[i] # <<>>

\* C2: for a row whose key is in the store, a statement is executed, the
\* store changes and a message is emitted exactly when a non-key field of
\* the row differs from the stored one; otherwise nothing happens.
C2_WriteIffChanged ==
    LastFound =>
        /\ (last.sql # <<>>) <=> LastDiffers
        /\ (store # last.before) <=> LastDiffers
        /\ (last.messages # <<>>) <=> LastDiffers
        /\ ~LastDiffers => (durable = last.before /\ pending = <<>>)

C2_Witness ==
    /\ LastFound /\ ~LastDiffers
    /\ writes = 2
    /\ last.sql = <<>>
    /\ store = last.before

\* C3: when a change is detected, one UPDATE runs and the stored record then
\* holds the six raw incoming values (not the rendered diff) under the old
\* key; no other record changes.
C3_UpdateStoresRaw ==
    (LastFound /\ LastDiffers) =>
        /\ last.sql = <<"UPDATE">>
        /\ store = (last.before \ {LastOld})
                     \cup {[i \in 1..8 |-> IF i \in 2..7 THEN LastNew[i] ELSE LastOld[i]]}
        /\ durable = store
        /\ \A r \in WithKey(store, LastNew) : \A i \in 2..7 :
              LastOld[i] # LastNew[i] =>
                  r[i] # generate_pretty_diff(calc_str_diff(LastOld[i], LastNew[i]))

C3_Witness ==
    /\ LastFound /\ LastDiffers
    /\ \E i \in 2..7 : LastOld[i] = LastNew[i] /\ LastNew[i] # <<>>
    /\ \E r \in last.before : r[1] = LastNew[1] /\ r[8] # LastNew[8]
    /\ store # last.before

RECURSIVE Rendered(_)
\* the rendering C4 describes: equal text as it is, every character of a
\* deleted text struck through, inserted text between ** and **
Rendered(diff) ==
    IF diff = <<>> THEN <<>>
    ELSE LET op == Head(diff)[1]
             text == Head(diff)[2]
             struck == join(<<>>, [i \in 1..Len(text) |-> <<text[i], Stroke>>])
         IN (CASE op = 0 -> text
               [] op = -1 -> struck
               [] op = 1 -> <<"*", "*">> \o text \o <<"*", "*">>)
            \o Rendered(Tail(diff))

\* C4: when a change is detected, one message is emitted; it shows every
\* changed field as the rendered diff of (stored, incoming), deleted text
\* struck through, and every other field as the stored value.
C4_ChangedEntryRendered ==
    (LastFound /\ LastDiffers) =>
        last.messages =
            << [i \in 1..7 |->
                  <<Titles[i],
                    IF LastOld[i] # LastNew[i]
                        THEN Rendered(calc_str_diff(LastOld[i], LastNew[i]))
                        ELSE LastOld[i]>>] >>

\* C5: a null row and a row with an empty or whitespace-only Topic are
\* skipped: no statement, no change of the store, no message.
C5_BlankSkipped ==
    (last.made /\ (IsNull(last.row) \/ IsBlank(parse_row(last.row)[1]))) =>
        /\ last.sql = <<>>
        /\ store = last.before
        /\ durable = last.before
        /\ last.messages = <<>>
        /\ pending = <<>>

C5_Witness ==
    /\ last.made /\ ~IsNull(last.row)
    /\ parse_row(last.row)[1] = <<" ">>
    /\ last.before # {}
    /\ store = last.before

\* C6: within one run check_for_change is never called twice with the same
\* (Topic, TableIndex): rows of a table that share the Topic are merged.
C6_TopicMergedOnce == ~twice

\* C7: a run started without a loadable token still fetches the tables and
\* applies every row: when it has ended, it has reached the end of main.
C7_RunsWithoutToken == (bot = "missing" /\ pc = "exit") => done

\* C8: when a message is about to be delivered the write is committed; a
\* failed delivery does not end the run, which applies the remaining rows;
\* no more messages than writes.
C8_DeliveryFailureNotFatal ==
    /\ pc = "print" => (durable = store /\ last.sql # <<>>)
    /\ (pc = "exit" /\ err = "print") => done
    /\ Len(outbox) + Len(pending) <= writes

\* C9: an INSERT is executed only for a key absent from the store and an
\* UPDATE only for a key present in it, no IntegrityError is raised, the
\* store holds one record per key and no key ever leaves it.
C9_LookupBeforeInsert ==
    [][ /\ last'.sql = <<"INSERT">> => WithKey(last'.before, RecordOf(last'.row)) = {}
        /\ last'.sql = <<"UPDATE">> => WithKey(last'.before, RecordOf(last'.row)) # {}
        /\ err' # "IntegrityError"
        /\ KeysUnique(store') /\ KeysUnique(durable')
        /\ Keys(store) \subseteq Keys(store')
        /\ Keys(durable) \subseteq Keys(durable') ]_vars

C9_Witness ==
    /\ runs = 2
    /\ last.sql = <<"UPDATE">>
    /\ Cardinality(Keys(store)) >= 2
    /\ writes >= 2

\* C10: a run that follows a complete run over the same tables writes
\* nothing and emits no message.
C10_RerunIdle == rerun => (writes = 0 /\ outbox = <<>> /\ pending = <<>>)

====
